---- MODULE Spec2Model ----
(***************************************************************************)
(* Asset tracking between locations of cloud connectors (CCONs).           *)
(*                                                                         *)
(* tracking/sensors.py : class Sensor, the per-device buffer and history.  *)
(* tracking/director.py: class Director, the replay loop (run_history),    *)
(*                       the live loop (run_stream) and the listener.      *)
(*                                                                         *)
(* Python lists are sequences; a Python index k is position k+1 here, and  *)
(* the indices the program stores (max_rssi, location_map entries) are     *)
(* kept 0-based as the program stores them.  Times are integers, one unit  *)
(* being half a second.                                                    *)
(***************************************************************************)
EXTENDS Integers, Sequences, FiniteSets, TLC

VARIABLES
    locations,      \* config.locations.locations: sequence of zones, each a sequence of ccon ids
    buffertime,     \* prm.buffertime (settle window)
    timeout,        \* self.args['timeout']
    streamtick,     \* prm.streamtick
    sensor_ids,     \* Director.sensor_ids
    sensors,        \* Director.sensors, as a function sensor id -> Sensor
    event_history,  \* Director.event_history (sorted log of the replay)
    i,              \* run_history: index of the next event of the log
    unix_now,       \* run_history: unix_now / run_stream: now
    wall,           \* the wall clock, time.time()
    pc,             \* position of the main thread
    n_in,           \* number of events delivered so far
    last,           \* the last operation performed and the state it started from
    lock,           \* Director.lock: "free" or the thread that holds it
    sensor_k,       \* run_stream: sensors checked so far in the for loop
    lpc,            \* position of the listener thread
    nth_reconnect,  \* listen: nth_reconnect
    failed,         \* connection attempts failed in a row
    event_data,     \* listen: event_data, the event received last
    replayed,       \* the trackers as the replay left them
    early           \* an event was served before the check of its own instant

vars == <<locations, buffertime, timeout, streamtick, sensor_ids, sensors, event_history,
          i, unix_now, wall, pc, n_in, last,
          lock, sensor_k, lpc, nth_reconnect, failed, event_data, replayed, early>>

\* The state of the two threads of the live run and of the comparison of
\* the two modes.
Aside == <<lock, sensor_k, lpc, nth_reconnect, failed, event_data, replayed, early>>

(***************************************************************************)
(* Bounds and input sets                                                   *)
(***************************************************************************)
\* Python's None, as stored in unixtime[0], max_rssi[..] and rssi[..][0].
None == -999

\* Largest n_events a tracker is driven to.
MaxEvents == 3

\* Time of the first instant of a run; unix times lie far above every window.
Epoch == 60

\* The wall clock runs up to Epoch + Horizon.
Horizon == 6

\* Most events delivered to a tracker by its callers.
MaxIn == 3

\* Most observations of a run of the director: those of the replay log and
\* those the listener delivers.
MaxObs == 2

\* Connector ids: A and B may be configured, C never is.
CconIds == {"A", "B", "C"}

\* Signal strengths carried by observations.
SignalStrengths == {-60, -50, 0, 7}

\* Zone topologies, with and without zones that have no connector; each
\* configures at least one connector, each connector once.
Topologies ==
    { << <<"A", "B">> >>,
      << <<"A">>, <<>> >>,
      << <<>>, <<"A">>, <<"B">> >> }

\* <<buffertime, timeout>> in half seconds: 2 s and 30 s, short windows, and
\* a timeout shorter than the buffer time.
Windows == { <<4, 60>>, <<1, 3>>, <<3, 1>> }

\* prm.streamtick
StreamTicks == {1, 2}

\* An event as the trackers read it: targetName, the first cloud connector's
\* id and signalStrength, and the unix time of updateTime.
Event(target, id, ss, ux) ==
    [target |-> target, id |-> id, signalStrength |-> ss, ux |-> ux]

NoEvent == Event("", "", 0, 0)

\* A cloud connector without the key 'id'.  A networkStatus without
\* 'updateTime' and a connector without 'signalStrength' carry None.
NoKey == "KeyError"

\* Devices of the project that carry the sensor label, and another target.
Devices == <<"s1", "s2">>

\* The events of unix time ux the director is fed: two connectors heard by
\* s1, one by s2, and one event of a device that is no sensor.
EventsAt(ux) ==
    { Event("s1", "A", -50, ux), Event("s1", "B", -60, ux),
      Event("s2", "A", -50, ux), Event("zz", "A", -50, ux) }

\* Topologies of the runs of the director.
DirectorTopologies == { << <<"A", "B">> >>, << <<"A">>, <<>> >> }

\* Unix times of the replay log, all before the live run starts.
HistTimes == (Epoch - 3)..(Epoch - 1)

\* Replay logs, sorted in time (line 237).
Logs ==
    LET ev == UNION { EventsAt(ux) : ux \in HistTimes }
        seqs == UNION { [1..n -> ev] : n \in 0..MaxObs }
    IN { h \in seqs : \A k \in 1..(Len(h) - 1) : h[k].ux <= h[k + 1].ux }

(***************************************************************************)
(* Sensor (tracking/sensors.py)                                            *)
(***************************************************************************)
RECURSIVE Flatten(_)
\* The connectors of all locations, in the order of the nested loops.
Flatten(locs) ==
    IF locs = <<>> THEN <<>> ELSE Head(locs) \o Flatten(Tail(locs))

RECURSIVE LocationMapLoop(_, _, _)
\* Lines 78-85: the nested loops over locations and their ccons; both
\* location_map.append(i) and location_map_unknown = i + 1 sit in the inner
\* loop body, so a location without ccons contributes nothing.
\* acc = <<location_map, location_map_unknown>>; k is the Python index i.
LocationMapLoop(locs, k, acc) ==
    IF k >= Len(locs) THEN acc
    ELSE LET n == Len(locs[k + 1])
             lm == acc[1] \o [j \in 1..n |-> k]
             unk == IF n > 0 THEN k + 1 ELSE acc[2]
         IN LocationMapLoop(locs, k + 1, <<lm, unk>>)

\* Sensor.__init__ and Sensor.__initialise_ccons_list.
\* location_map_unknown is None here while the attribute is not set.
NewSensor(locs) ==
    LET cc == Flatten(locs)
        lm == LocationMapLoop(locs, 0, <<(<<>>), None>>)
    IN [ unixtime             |-> <<None>>,
         rssi                 |-> [k \in 1..Len(cc) |-> <<None>>],
         ccons                |-> cc,
         ccon_ids             |-> <<>>,
         max_rssi             |-> <<None>>,
         n_events             |-> 1,
         last_event           |-> -1,
         buffering            |-> FALSE,
         event_buffer         |-> <<>>,
         location_map         |-> lm[1],
         location_map_unknown |-> lm[2] ]

\* ccon id in self.ccons
Known(s, id) == \E k \in 1..Len(s.ccons) : s.ccons[k] = id

\* self.ccons[id], the 0-based row index of a known connector
CconIndex(s, id) == (CHOOSE k \in 1..Len(s.ccons) : s.ccons[k] = id) - 1

\* Variant: the event is appended without looking for its ccon in the buffer.
BufferEvent_NoDedup(buf, event) == Append(buf, event)

\* Lines 100-110: replace the buffered event of the same ccon, else append.
BufferEvent(buf, event) ==
    IF \E k \in 1..Len(buf) : buf[k].id = event.id
    THEN [k \in 1..Len(buf) |-> IF buf[k].id = event.id THEN event ELSE buf[k]]
    ELSE Append(buf, event)

\* Line 104: the first iteration of the loop over the buffer that raises
\* KeyError, for a missing 'id' of the buffered or of the new event; 0 when
\* none does.
FirstKeyError(buf, event) ==
    LET bad == {j \in 1..Len(buf) : buf[j].id = NoKey \/ event.id = NoKey}
    IN IF bad = {} THEN 0 ELSE CHOOSE j \in bad : \A m \in bad : j <= m

\* Variant: the buffering flag is not raised (line 117 left out).
new_event_data_NoFlag(s, event) ==
    [s EXCEPT !.event_buffer = BufferEvent(s.event_buffer, event),
              !.last_event   = event.ux]

\* Sensor.new_event_data.  The buffer is updated (lines 100-110) before the
\* timestamp is read (line 113): a KeyError of line 104 leaves the
\* replacements made before it, a KeyError of line 113 leaves the updated
\* buffer with last_event and buffering as they were.
new_event_data(s, event) ==
    LET buf == s.event_buffer
        bad == FirstKeyError(buf, event)
    IN IF bad > 0
       THEN [s EXCEPT !.event_buffer =
                [j \in 1..Len(buf) |->
                    IF j < bad /\ buf[j].id = event.id THEN event ELSE buf[j]]]
       ELSE IF event.ux = None
       THEN [s EXCEPT !.event_buffer = BufferEvent(buf, event)]
       ELSE [s EXCEPT !.event_buffer = BufferEvent(buf, event),
                      !.last_event   = event.ux,
                      !.buffering    = TRUE]

\* Variant: the new row is back-filled up to and including the new tick.
NewRow_OneMore(n_events) == [k \in 1..n_events |-> 0]

\* Line 136: the row of a connector not yet known, [0 for i in range(n_events-1)]
NewRow(n_events) == [k \in 1..(n_events - 1) |-> 0]

\* Lines 134-141: add new ccon if not yet known.
RegisterCcon(s, event) ==
    IF Known(s, event.id) THEN s
    ELSE [s EXCEPT !.rssi         = Append(@, NewRow(s.n_events)),
                   !.ccons        = Append(@, event.id),
                   !.ccon_ids     = Append(@, event.id),
                   !.location_map = Append(@, s.location_map_unknown)]

\* Variant: the signal strength overwrites the last entry of the row.
AppendEvent_Overwrite(s, event) ==
    LET s1 == RegisterCcon(s, event)
    IN [s1 EXCEPT !.rssi[CconIndex(s1, event.id) + 1] =
                      [@ EXCEPT ![Len(@)] = event.signalStrength]]

\* Lines 131-144: one iteration of the loop over the buffered events.
AppendEvent(s, event) ==
    LET s1 == RegisterCcon(s, event)
    IN [s1 EXCEPT !.rssi[CconIndex(s1, event.id) + 1] = Append(@, event.signalStrength)]

\* A buffered event on which the loop of lines 129-144 raises KeyError.
KeyErrorInFlush(event) == event.id = NoKey \/ event.signalStrength = None

RECURSIVE AppendEvents(_, _)
\* Lines 129-144: for event in self.event_buffer.  The loop ends at the first
\* event without 'id' (line 134) or, its row registered, without
\* 'signalStrength' (line 144).
AppendEvents(s, buf) ==
    IF buf = <<>> THEN s
    ELSE IF Head(buf).id = NoKey THEN s
    ELSE IF Head(buf).signalStrength = None THEN RegisterCcon(s, Head(buf))
    ELSE AppendEvents(AppendEvent(s, Head(buf)), Tail(buf))

\* Variant: 0 is appended to every row, talking or not.
FillRows_All(rssi, n_events) == [k \in 1..Len(rssi) |-> Append(rssi[k], 0)]

\* Lines 147-149 and 174-176: append 0 to every row shorter than n_events.
FillRows(rssi, n_events) ==
    [k \in 1..Len(rssi) |->
        IF Len(rssi[k]) < n_events THEN Append(rssi[k], 0) ELSE rssi[k]]

RECURSIVE MaxLoop(_, _, _, _)
\* Lines 154-157: the scan for the greatest last value; k is the Python index.
MaxLoop(rssi, k, argmax, valmax) ==
    IF k >= Len(rssi) THEN argmax
    ELSE LET v == rssi[k + 1][Len(rssi[k + 1])]
         IN IF v > valmax THEN MaxLoop(rssi, k + 1, k, v)
                          ELSE MaxLoop(rssi, k + 1, argmax, valmax)

\* Lines 152-157: argmax = -1, valmax = -1, then the scan.
ArgMax(rssi) == MaxLoop(rssi, 0, -1, -1)

\* Variant: the buffer variables are not reset (lines 162-163 left out).
update_event_data_NoReset(s, ux_calltime) ==
    LET s1 == [s EXCEPT !.unixtime = Append(@, ux_calltime),
                        !.n_events = @ + 1]
        s2 == AppendEvents(s1, s1.event_buffer)
        s3 == [s2 EXCEPT !.rssi = FillRows(s2.rssi, s2.n_events)]
    IN [s3 EXCEPT !.max_rssi = Append(@, ArgMax(s3.rssi))]

\* Variant: the tick is stamped with the time of the last buffered event,
\* the ux of line 122, instead of the call time.
update_event_data_StampEvent(s, ux_calltime) ==
    LET buf == s.event_buffer
        s1 == [s EXCEPT !.unixtime = Append(@, buf[Len(buf)].ux),
                        !.n_events = @ + 1]
        s2 == AppendEvents(s1, s1.event_buffer)
        s3 == [s2 EXCEPT !.rssi = FillRows(s2.rssi, s2.n_events)]
    IN [s3 EXCEPT !.max_rssi     = Append(@, ArgMax(s3.rssi)),
                  !.buffering    = FALSE,
                  !.event_buffer = <<>>]

\* Sensor.update_event_data, for a non-empty buffer.  Line 122 reads the
\* updateTime of the last buffered event before anything is assigned; a
\* KeyError of the loop (lines 134, 144) comes after lines 123 and 126 and
\* ends the call there.
update_event_data(s, ux_calltime) ==
    LET buf == s.event_buffer
        s1 == [s EXCEPT !.unixtime = Append(@, ux_calltime),
                        !.n_events = @ + 1]
        s2 == AppendEvents(s1, s1.event_buffer)
        s3 == [s2 EXCEPT !.rssi = FillRows(s2.rssi, s2.n_events)]
    IN IF buf[Len(buf)].ux = None THEN s
       ELSE IF \E j \in 1..Len(buf) : KeyErrorInFlush(buf[j]) THEN s2
       ELSE [s3 EXCEPT !.max_rssi     = Append(@, ArgMax(s3.rssi)),
                       !.buffering    = FALSE,
                       !.event_buffer = <<>>]

\* Variant: row 0 is recorded as the assignment instead of None.
update_empty_AssignFirst(s, ux_calltime) ==
    LET s1 == [s EXCEPT !.n_events = @ + 1,
                        !.unixtime = Append(@, ux_calltime),
                        !.max_rssi = Append(@, 0)]
    IN [s1 EXCEPT !.rssi = FillRows(s1.rssi, s1.n_events)]

\* Sensor.update_empty
update_empty(s, ux_calltime) ==
    LET s1 == [s EXCEPT !.n_events = @ + 1,
                        !.unixtime = Append(@, ux_calltime),
                        !.max_rssi = Append(@, None)]
    IN [s1 EXCEPT !.rssi = FillRows(s1.rssi, s1.n_events)]

(***************************************************************************)
(* A tracker driven by any sequence of calls                               *)
(***************************************************************************)
\* The record of an operation: its name, its arguments and the trackers
\* before it.
Op(op, event, now) ==
    [op |-> op, event |-> event, now |-> now, pre |-> sensors]

\* The caller's clock: one instant per committed tick.
CallTimes(s) == {Epoch + s.n_events}

SensorEvents ==
    { Event("s1", id, ss, Epoch) : id \in CconIds, ss \in SignalStrengths }

\* No thread is running and nothing is compared.
AsideInit ==
    /\ lock = "free" /\ sensor_k = 0
    /\ lpc = "idle" /\ nth_reconnect = 0 /\ failed = 0 /\ event_data = NoEvent
    /\ replayed = sensors /\ early = FALSE

DirectorIdle ==
    UNCHANGED <<locations, buffertime, timeout, streamtick, sensor_ids,
                event_history, i, unix_now, wall, pc, Aside>>

SensorInit ==
    /\ locations \in DirectorTopologies
    /\ buffertime = 0 /\ timeout = 0 /\ streamtick = 0
    /\ sensor_ids = <<"s1">>
    /\ sensors = [sid \in {"s1"} |-> NewSensor(locations)]
    /\ event_history = <<>> /\ i = 0 /\ unix_now = 0 /\ wall = 0
    /\ pc = "calls" /\ n_in = 0
    /\ last = Op("init", NoEvent, 0)
    /\ AsideInit

CallNewEventData ==
    \E event \in SensorEvents :
        /\ n_in < MaxIn
        /\ n_in' = n_in + 1
        /\ sensors' = [sensors EXCEPT !["s1"] = new_event_data(@, event)]
        /\ last' = Op("new_event_data", event, 0)
        /\ DirectorIdle

CallUpdateEventData ==
    \E t \in CallTimes(sensors["s1"]) :
        /\ Len(sensors["s1"].event_buffer) > 0
        /\ sensors["s1"].n_events < MaxEvents
        /\ sensors' = [sensors EXCEPT !["s1"] = update_event_data(@, t)]
        /\ last' = Op("update_event_data", NoEvent, t)
        /\ UNCHANGED n_in
        /\ DirectorIdle

\* Line 122 indexes event_buffer[-1] first: an empty buffer raises IndexError
\* before anything is assigned.
CallUpdateEventDataEmptyBuffer ==
    \E t \in CallTimes(sensors["s1"]) :
        /\ Len(sensors["s1"].event_buffer) = 0
        /\ sensors' = sensors
        /\ last' = Op("IndexError", NoEvent, t)
        /\ UNCHANGED n_in
        /\ DirectorIdle

CallUpdateEmpty ==
    \E t \in CallTimes(sensors["s1"]) :
        /\ sensors["s1"].n_events < MaxEvents
        /\ sensors' = [sensors EXCEPT !["s1"] = update_empty(@, t)]
        /\ last' = Op("update_empty", NoEvent, t)
        /\ UNCHANGED n_in
        /\ DirectorIdle

SensorNext ==
    \/ CallNewEventData
    \/ CallUpdateEventData
    \/ CallUpdateEventDataEmptyBuffer
    \/ CallUpdateEmpty

SensorSpec == SensorInit /\ [][SensorNext]_vars

\* Events as they may arrive, with and without the keys the tracker reads.
RawEvents ==
    { Event("s1", id, ss, ux) : id \in {"A", "C", NoKey}, ss \in {-50, None},
                                ux \in {Epoch, None} }

CallNewEventDataRaw ==
    \E event \in RawEvents :
        /\ n_in < MaxIn
        /\ n_in' = n_in + 1
        /\ sensors' = [sensors EXCEPT !["s1"] = new_event_data(@, event)]
        /\ last' = Op("new_event_data", event, 0)
        /\ DirectorIdle

RawSensorNext ==
    \/ CallNewEventDataRaw
    \/ CallUpdateEventData
    \/ CallUpdateEventDataEmptyBuffer
    \/ CallUpdateEmpty

\* A tracker driven by any sequence of calls with events of any shape.
RawSensorSpec == SensorInit /\ [][RawSensorNext]_vars

(***************************************************************************)
(* Director (tracking/director.py): replay, then the live run              *)
(***************************************************************************)
\* Variant: the event is served to every sensor, whatever its target.
Dispatch_All(ss, event) ==
    [sid \in DOMAIN ss |-> new_event_data(ss[sid], event)]

\* Director.__new_event_data: serve the event to the sensor it names.
Dispatch(ss, event) ==
    [sid \in DOMAIN ss |->
        IF sid = event.target THEN new_event_data(ss[sid], event) ELSE ss[sid]]

\* Variant: the timeout is tested before the buffer time.
Decision_TimeoutFirst(s, now) ==
    IF now - s.last_event > timeout THEN "update_empty"
    ELSE IF s.buffering /\ Len(s.event_buffer) > 0 /\ now - s.last_event > buffertime
    THEN "update_event_data"
    ELSE "none"

\* Variant: the settle window counts as elapsed when it is just reached.
Decision_AtLeast(s, now) ==
    IF s.buffering /\ Len(s.event_buffer) > 0 /\ now - s.last_event >= buffertime
    THEN "update_event_data"
    ELSE IF now - s.last_event > timeout THEN "update_empty" ELSE "none"

\* Variant: the buffer time is counted from the first buffered event.
Decision_SinceFirst(s, now) ==
    IF s.buffering /\ Len(s.event_buffer) > 0 /\ now - s.event_buffer[1].ux > buffertime
    THEN "update_event_data"
    ELSE IF now - s.last_event > timeout THEN "update_empty" ELSE "none"

\* Lines 283-287 and 328-337: what the check of one sensor calls.
Decision(s, now) ==
    IF s.buffering /\ Len(s.event_buffer) > 0 /\ now - s.last_event > buffertime
    THEN "update_event_data"
    ELSE IF now - s.last_event > timeout THEN "update_empty" ELSE "none"

\* Lines 282-287 and 327-337: check the buffering status of each sensor.
Check(ss, now) ==
    [sid \in DOMAIN ss |->
        CASE Decision(ss[sid], now) = "update_event_data" -> update_event_data(ss[sid], now)
          [] Decision(ss[sid], now) = "update_empty"      -> update_empty(ss[sid], now)
          [] OTHER                                        -> ss[sid]]

Init ==
    /\ locations \in DirectorTopologies
    /\ \E w \in Windows : buffertime = w[1] /\ timeout = w[2]
    /\ streamtick \in StreamTicks
    /\ sensor_ids = Devices
    /\ sensors = [sid \in {Devices[k] : k \in 1..Len(Devices)} |-> NewSensor(locations)]
    /\ event_history \in Logs
    /\ i = 0 /\ unix_now = 0 /\ wall = Epoch
    /\ pc = "run_history" /\ n_in = 0
    /\ last = Op("init", NoEvent, 0)
    /\ AsideInit

Config == <<locations, buffertime, timeout, streamtick, sensor_ids, event_history>>

\* run_history, lines 254-270: return when nothing was fetched, else set up
\* the simulated clock.
RunHistory ==
    /\ pc = "run_history"
    /\ IF Len(event_history) < 1
       THEN pc' = "stream_now" /\ UNCHANGED <<i, unix_now>>
       ELSE pc' = "simulate" /\ i' = 0 /\ unix_now' = event_history[1].ux
    /\ last' = Op("run_history", NoEvent, 0)
    /\ UNCHANGED <<Config, Aside, sensors, wall, n_in>>

\* Variant: the end of the replay is the time of the first event.
unix_end_First == event_history[1].ux

\* Line 266: unix_end = event_history_unixtime[-1]
unix_end == event_history[Len(event_history)].ux

\* Variant: an event of the cursor's own instant has "occured" too.
Due_AtOrBefore == i < Len(event_history) /\ event_history[i + 1].ux <= unix_now

\* Line 274: the condition of the catch-up loop.
Due == i < Len(event_history) /\ event_history[i + 1].ux < unix_now

\* Lines 274-279: serve one event that has "occured".
HistoryServe ==
    /\ pc = "simulate" /\ unix_now <= unix_end /\ Due
    /\ sensors' = Dispatch(sensors, event_history[i + 1])
    /\ i' = i + 1
    /\ last' = Op("new_event_data", event_history[i + 1], unix_now)
    /\ UNCHANGED <<Config, Aside, unix_now, wall, pc, n_in>>

\* Lines 281-290: check every sensor, then iterate time.
HistoryCheck ==
    /\ pc = "simulate" /\ unix_now <= unix_end /\ ~Due
    /\ sensors' = Check(sensors, unix_now)
    /\ unix_now' = unix_now + streamtick
    /\ last' = Op("check", NoEvent, unix_now)
    /\ UNCHANGED <<Config, Aside, i, wall, pc, n_in>>

\* Line 271 fails: the replay is over and run_stream starts.
HistoryEnd ==
    /\ pc = "simulate" /\ unix_now > unix_end
    /\ pc' = "stream_now"
    /\ last' = Op("end_history", NoEvent, unix_now)
    /\ UNCHANGED <<Config, Aside, sensors, i, unix_now, wall, n_in>>

Streaming == pc \in {"stream_now", "stream_lock", "stream_sleep"}

\* Line 323: now = time.time()
StreamNow ==
    /\ pc = "stream_now"
    /\ unix_now' = wall
    /\ pc' = "stream_lock"
    /\ last' = Op("now", NoEvent, wall)
    /\ UNCHANGED <<Config, Aside, sensors, i, wall, n_in>>

\* Lines 325-337: with the lock held, check every sensor.
StreamCheck ==
    /\ pc = "stream_lock"
    /\ sensors' = Check(sensors, unix_now)
    /\ pc' = "stream_sleep"
    /\ last' = Op("check", NoEvent, unix_now)
    /\ UNCHANGED <<Config, Aside, i, unix_now, wall, n_in>>

\* Line 339: time.sleep(prm.streamtick)
StreamSleep ==
    /\ pc = "stream_sleep"
    /\ wall + streamtick <= Epoch + Horizon
    /\ wall' = wall + streamtick
    /\ pc' = "stream_now"
    /\ last' = Op("sleep", NoEvent, wall)
    /\ UNCHANGED <<Config, Aside, sensors, i, unix_now, n_in>>

\* Lines 366-373: the listener thread receives an event of the current
\* instant and, with the lock held, serves it.
Listen ==
    \E event \in EventsAt(wall) :
        /\ Streaming
        /\ Len(event_history) + n_in < MaxObs
        /\ n_in' = n_in + 1
        /\ sensors' = Dispatch(sensors, event)
        /\ last' = Op("new_event_data", event, wall)
        /\ UNCHANGED <<Config, Aside, i, unix_now, wall, pc>>

Next ==
    \/ RunHistory
    \/ HistoryServe
    \/ HistoryCheck
    \/ HistoryEnd
    \/ StreamNow
    \/ StreamCheck
    \/ StreamSleep
    \/ Listen

Spec == Init /\ [][Next]_vars

ReplayNext ==
    \/ RunHistory
    \/ HistoryServe
    \/ HistoryCheck
    \/ HistoryEnd

\* The replay alone.  run_history is a loop of the main thread, run before
\* any other thread is started: a step that can be taken is taken.
ReplaySpec == Init /\ [][ReplayNext]_vars /\ WF_vars(ReplayNext)

(***************************************************************************)
(* The live run, thread by thread: run_stream and listen                   *)
(***************************************************************************)
\* listen, line 353: n_reconnects
n_reconnects == 5

\* Most connection attempts that fail in a row in a run of the model.
MaxFailed == 6

\* Variant: the with statement does not wait for the lock.
CanAcquire_Always == TRUE

\* Lines 325 and 371: with self.lock blocks until no thread holds the lock.
CanAcquire == lock = "free"

\* The live run alone: nothing was fetched, run_history has returned.  The
\* threads are followed at the slower of the ticks.
LiveInit ==
    /\ locations \in DirectorTopologies
    /\ \E w \in Windows : buffertime = w[1] /\ timeout = w[2]
    /\ streamtick \in {t \in StreamTicks : \A u \in StreamTicks : u <= t}
    /\ sensor_ids = Devices
    /\ sensors = [sid \in {Devices[j] : j \in 1..Len(Devices)} |-> NewSensor(locations)]
    /\ event_history = <<>>
    /\ i = 0 /\ unix_now = 0 /\ wall = Epoch
    /\ pc = "run_stream" /\ n_in = 0
    /\ last = Op("init", NoEvent, 0)
    /\ AsideInit

Compared == <<replayed, early>>
Listener == <<lpc, nth_reconnect, failed, event_data>>

\* Lines 314-317: the listener thread is started.
RunStream ==
    /\ pc = "run_stream"
    /\ pc' = "stream_now"
    /\ lpc' = "while"
    /\ UNCHANGED <<Config, Compared, sensors, i, unix_now, wall, n_in, last,
                   lock, sensor_k, nth_reconnect, failed, event_data>>

\* Line 323, with both threads running.
LiveNow ==
    /\ lpc # "idle"
    /\ StreamNow

\* Line 325: the main thread takes the lock.
LiveAcquire ==
    /\ pc = "stream_lock" /\ lpc # "idle"
    /\ CanAcquire
    /\ lock' = "main"
    /\ sensor_k' = 0
    /\ pc' = "stream_for"
    /\ last' = Op("lock", NoEvent, unix_now)
    /\ UNCHANGED <<Config, Compared, Listener, sensors, i, unix_now, wall, n_in>>

\* Lines 327-337: one iteration of the loop over the sensors, lock held.
LiveCheckSensor ==
    /\ pc = "stream_for" /\ sensor_k < Len(sensor_ids)
    /\ LET sid == sensor_ids[sensor_k + 1]
       IN sensors' = [sensors EXCEPT ![sid] = Check(sensors, unix_now)[sid]]
    /\ sensor_k' = sensor_k + 1
    /\ last' = [last EXCEPT !.op = "check_sensor"]
    /\ UNCHANGED <<Config, Compared, Listener, i, unix_now, wall, pc, n_in, lock>>

\* The with block of line 325 ends: the lock is released.
LiveRelease ==
    /\ pc = "stream_for" /\ sensor_k = Len(sensor_ids)
    /\ lock' = "free"
    /\ pc' = "stream_sleep"
    /\ UNCHANGED <<Config, Compared, Listener, sensors, i, unix_now, wall, n_in,
                   last, sensor_k>>

\* Line 339, with both threads running.
LiveSleep ==
    /\ lpc # "idle"
    /\ StreamSleep

\* Line 355: while nth_reconnect < n_reconnects
ListenWhile ==
    /\ lpc = "while"
    /\ lpc' = IF nth_reconnect < n_reconnects THEN "try" ELSE "stopped"
    /\ UNCHANGED <<Config, Compared, sensors, i, unix_now, wall, pc, n_in, last,
                   lock, sensor_k, nth_reconnect, failed, event_data>>

\* Lines 357-362: nth_reconnect is reset, then the stream is requested and
\* the connection is made.
ListenGet ==
    /\ lpc = "try"
    /\ nth_reconnect' = 0
    /\ failed' = 0
    /\ lpc' = "events"
    /\ UNCHANGED <<Config, Compared, sensors, i, unix_now, wall, pc, n_in, last,
                   lock, sensor_k, event_data>>

\* Lines 357-361 and 375-381: nth_reconnect is reset, the request (or, once
\* connected, the stream) raises ConnectionError or ChunkedEncodingError,
\* nth_reconnect is incremented; line 389 sleeps before the next loop test.
ListenConnectionError ==
    /\ lpc \in {"try", "events"}
    /\ failed < MaxFailed
    /\ nth_reconnect' = (IF lpc = "try" THEN 0 ELSE nth_reconnect) + 1
    /\ failed' = failed + 1
    /\ lpc' = "while"
    /\ UNCHANGED <<Config, Compared, sensors, i, unix_now, wall, pc, n_in, last,
                   lock, sensor_k, event_data>>

\* Lines 366-368: an event of the current instant arrives and is unpacked.
ListenReceive ==
    \E event \in EventsAt(wall) :
        /\ lpc = "events"
        /\ n_in < MaxObs
        /\ n_in' = n_in + 1
        /\ event_data' = event
        /\ lpc' = "got"
        /\ UNCHANGED <<Config, Compared, sensors, i, unix_now, wall, pc, last,
                       lock, sensor_k, nth_reconnect, failed>>

\* Lines 368 and 383-386: the package lacks result or event; KeyError is
\* caught, nth_reconnect stays, the loop goes on.
ListenKeyError ==
    /\ lpc = "events"
    /\ lpc' = "while"
    /\ UNCHANGED <<Config, Compared, sensors, i, unix_now, wall, pc, n_in, last,
                   lock, sensor_k, nth_reconnect, failed, event_data>>

\* Line 371: the listener takes the lock.
ListenAcquire ==
    /\ lpc = "got"
    /\ CanAcquire
    /\ lock' = "listener"
    /\ lpc' = "locked"
    /\ UNCHANGED <<Config, Compared, sensors, i, unix_now, wall, pc, n_in, last,
                   sensor_k, nth_reconnect, failed, event_data>>

\* Lines 372-373: the event is served, the with block ends.
ListenServe ==
    /\ lpc = "locked"
    /\ sensors' = Dispatch(sensors, event_data)
    /\ lock' = "free"
    /\ lpc' = "events"
    /\ last' = Op("new_event_data", event_data, wall)
    /\ UNCHANGED <<Config, Compared, i, unix_now, wall, pc, n_in,
                   sensor_k, nth_reconnect, failed, event_data>>

LiveNext ==
    \/ RunStream
    \/ LiveNow
    \/ LiveAcquire
    \/ LiveCheckSensor
    \/ LiveRelease
    \/ LiveSleep
    \/ ListenWhile
    \/ ListenGet
    \/ ListenReceive
    \/ ListenAcquire
    \/ ListenServe

\* The two threads, the connection of the listener holding.
LiveSpec == LiveInit /\ [][LiveNext]_vars

\* The two threads under fair scheduling.  The loop of run_stream goes on:
\* every step of the main thread that can be taken is taken, and the lock,
\* which the listener takes and frees in between, is obtained in the end;
\* the listener leaves its with block.
FairLiveSpec ==
    /\ LiveSpec
    /\ WF_vars(RunStream \/ LiveNow \/ LiveCheckSensor \/ LiveRelease \/ LiveSleep)
    /\ SF_vars(LiveAcquire)
    /\ WF_vars(ListenServe)

ListenNext ==
    \/ RunStream
    \/ ListenWhile
    \/ ListenGet
    \/ ListenConnectionError
    \/ ListenReceive
    \/ ListenKeyError
    \/ ListenAcquire
    \/ ListenServe

\* The listener thread with a connection that may fail, between two checks
\* of the main thread.
ListenSpec == LiveInit /\ [][ListenNext]_vars

(***************************************************************************)
(* The two modes on one log: the replay, then a live run of fresh trackers *)
(* that receives the events of the log at their times and checks at the    *)
(* instants of the replay's cursor                                         *)
(***************************************************************************)
TwinInit == Init /\ Len(event_history) >= 1

\* The replay is over (line 271 fails); its trackers are kept aside and a
\* director with new trackers starts run_stream at the time of the first
\* event.
TwinStart ==
    /\ pc = "simulate" /\ unix_now > unix_end
    /\ replayed' = sensors
    /\ sensors' = [sid \in DOMAIN sensors |-> NewSensor(locations)]
    /\ i' = 0
    /\ wall' = event_history[1].ux
    /\ pc' = "stream_now"
    /\ last' = Op("run_stream", NoEvent, unix_now)
    /\ UNCHANGED <<Config, unix_now, n_in, lock, sensor_k, Listener, early>>

\* Line 323, once every event of an earlier time has arrived.
TwinNow ==
    /\ \A j \in (i + 1)..Len(event_history) : event_history[j].ux >= wall
    /\ StreamNow

\* Line 339, once every event of the current instant has arrived, up to the
\* last instant of the replay's cursor.
TwinSleep ==
    /\ \A j \in (i + 1)..Len(event_history) : event_history[j].ux > wall
    /\ wall + streamtick <= unix_end
    /\ StreamSleep

\* Lines 366-373: the next event of the log arrives at its time and is
\* served with the lock held, before or after the check of that instant.
TwinListen ==
    /\ Streaming
    /\ i < Len(event_history) /\ event_history[i + 1].ux <= wall
    /\ sensors' = Dispatch(sensors, event_history[i + 1])
    /\ i' = i + 1
    /\ early' = (early \/ (event_history[i + 1].ux = wall /\ pc # "stream_sleep"))
    /\ last' = Op("new_event_data", event_history[i + 1], wall)
    /\ UNCHANGED <<Config, unix_now, wall, pc, n_in, lock, sensor_k, Listener, replayed>>

TwinNext ==
    \/ RunHistory
    \/ HistoryServe
    \/ HistoryCheck
    \/ TwinStart
    \/ TwinNow
    \/ StreamCheck
    \/ TwinSleep
    \/ TwinListen

TwinSpec == TwinInit /\ [][TwinNext]_vars

(***************************************************************************)
(* Properties of a tracker                                                 *)
(***************************************************************************)
Last(seq) == seq[Len(seq)]

\* The trackers that exist.
Sids == DOMAIN sensors

\* The ids buffered, and the buffered event of a connector.
BufferedIds(buf) == {buf[k].id : k \in 1..Len(buf)}
Buffered(buf, id) == buf[CHOOSE k \in 1..Len(buf) : buf[k].id = id]

\* C1: every known connector's RSSI row, the timestamps and the assignments
\* have length n_events, every known connector has a row, and n_events is 1
\* after construction.
C1_LengthsEqualTickCount ==
    \A sid \in Sids :
        LET s == sensors[sid] IN
        /\ s.n_events >= 1
        /\ Len(s.unixtime) = s.n_events
        /\ Len(s.max_rssi) = s.n_events
        /\ Len(s.rssi) = Len(s.ccons)
        /\ \A k \in 1..Len(s.rssi) : Len(s.rssi[k]) = s.n_events
        /\ (last.op = "init" => s.n_events = 1)

\* C1 witness: a tracker with a discovered connector that has committed ticks
\* by both update_event_data and update_empty.
C1_Witness ==
    /\ last.op = "update_empty"
    /\ sensors["s1"].n_events >= 3
    /\ Len(sensors["s1"].ccon_ids) > 0
    /\ Len(sensors["s1"].event_buffer) > 0

\* C2: the buffer holds at most one event per connector id; an ingest leaves
\* the ingested event as the entry of its connector and the entries of the
\* other connectors as they were; update_empty does not touch the buffer.
C2_BufferLatestPerConnector ==
    \A sid \in Sids :
        LET buf == sensors[sid].event_buffer
            old == last.pre[sid].event_buffer
        IN
        /\ \A j, k \in 1..Len(buf) : buf[j].id = buf[k].id => j = k
        /\ (last.op = "new_event_data" /\ last.event.target = sid) =>
              /\ last.event.id \in BufferedIds(buf)
              /\ Buffered(buf, last.event.id) = last.event
              /\ BufferedIds(buf) = BufferedIds(old) \cup {last.event.id}
              /\ \A id \in BufferedIds(old) \ {last.event.id} :
                    Buffered(buf, id) = Buffered(old, id)
        /\ last.op = "update_empty" => buf = old

\* C2 witness: a second ingest for a connector that was already buffered, with
\* another connector buffered too.
C2_Witness ==
    /\ last.op = "new_event_data"
    /\ last.event.id \in BufferedIds(last.pre["s1"].event_buffer)
    /\ Buffered(last.pre["s1"].event_buffer, last.event.id) # last.event
    /\ Len(sensors["s1"].event_buffer) = 2

\* What the last operation called on tracker sid, read off its effect: both
\* commits change the tracker, and only update_empty records None.
Called(sid) ==
    IF last.op \notin {"update_event_data", "update_empty", "check"}
       \/ sensors[sid] = last.pre[sid]
    THEN "none"
    ELSE IF Last(sensors[sid].max_rssi) = None THEN "update_empty"
                                               ELSE "update_event_data"

\* The last operation flushed tracker sid.
Flushed(sid) == Called(sid) = "update_event_data"

\* C3: a flush commits exactly one tick: n_events grows by one, the call time
\* is the new timestamp, every known connector's row grows by its buffered
\* signal strength, or by 0 when it is not buffered, and afterwards the
\* buffer is empty and the tracker is not buffering.
C3_FlushCommitsOneTick ==
    \A sid \in Sids : Flushed(sid) =>
        LET s   == sensors[sid]
            old == last.pre[sid]
            buf == old.event_buffer
        IN
        /\ s.n_events = old.n_events + 1
        /\ s.unixtime = Append(old.unixtime, last.now)
        /\ Len(s.max_rssi) = Len(old.max_rssi) + 1
        /\ \A k \in 1..Len(s.ccons) :
              /\ Len(s.rssi[k]) = s.n_events
              /\ Last(s.rssi[k]) =
                    IF s.ccons[k] \in BufferedIds(buf)
                    THEN Buffered(buf, s.ccons[k]).signalStrength
                    ELSE 0
        /\ BufferedIds(buf) \subseteq {s.ccons[k] : k \in 1..Len(s.ccons)}
        /\ s.event_buffer = <<>>
        /\ s.buffering = FALSE

\* C3 witness: a flush of two buffered connectors while a third, known one
\* stayed silent.
C3_Witness ==
    /\ Flushed("s1")
    /\ Len(last.pre["s1"].event_buffer) = 2
    /\ Len(sensors["s1"].ccons) = 3
    /\ \E k \in 1..3 : Last(sensors["s1"].rssi[k]) = 7

\* The values appended by the last commit, by row index (0-based).
Appended(s) == [k \in 0..(Len(s.rssi) - 1) |-> Last(s.rssi[k + 1])]

\* C4: after a flush, when one connector's appended value is strictly greater
\* than every other known connector's, the recorded assignment is the row
\* index of that connector, whatever the sign of the values.
C4_AssignmentIsStrictMax ==
    \A sid \in Sids : Flushed(sid) =>
        LET s == sensors[sid]
            v == Appended(s)
        IN \A k \in DOMAIN v :
              (\A j \in DOMAIN v \ {k} : v[k] > v[j]) => Last(s.max_rssi) = k

\* C5: after a flush, when two or more connectors share the greatest appended
\* value, the recorded assignment is the lowest row index among them.
C5_TieGoesToEarliest ==
    \A sid \in Sids : Flushed(sid) =>
        LET s == sensors[sid]
            v == Appended(s)
            top == {k \in DOMAIN v : \A j \in DOMAIN v : v[k] >= v[j]}
        IN Cardinality(top) >= 2 =>
              /\ Last(s.max_rssi) \in top
              /\ \A k \in top : Last(s.max_rssi) <= k

\* C6: a connector first committed by the flush that creates tick index k
\* (k = n_events before the flush) gets a row of k zeros followed by its
\* buffered signal strength, and its location is location_map_unknown.
C6_BackfillOfNewConnector ==
    \A sid \in Sids : Flushed(sid) =>
        LET s   == sensors[sid]
            old == last.pre[sid]
            buf == old.event_buffer
        IN \A id \in BufferedIds(buf) : ~Known(old, id) =>
              /\ Known(s, id)
              /\ LET row == s.rssi[CconIndex(s, id) + 1] IN
                    /\ Len(row) = old.n_events + 1
                    /\ \A t \in 1..old.n_events : row[t] = 0
                    /\ row[old.n_events + 1] = Buffered(buf, id).signalStrength
              /\ s.location_map[CconIndex(s, id) + 1] = s.location_map_unknown
              /\ Len(s.location_map) = Len(s.ccons)

\* C6 witness: a connector registered by the flush that creates tick 2, with
\* a non-zero signal strength.
C6_Witness ==
    /\ Flushed("s1")
    /\ last.pre["s1"].n_events = 2
    /\ \E id \in BufferedIds(last.pre["s1"].event_buffer) :
          /\ ~Known(last.pre["s1"], id)
          /\ Buffered(last.pre["s1"].event_buffer, id).signalStrength # 0

\* C7: the zone index given to connectors absent from the configuration is
\* the number of configured zones.
C7_UnknownZoneIsZoneCount ==
    \A sid \in Sids : sensors[sid].location_map_unknown = Len(locations)

(***************************************************************************)
(* Properties of the scheduling                                            *)
(***************************************************************************)
\* C8: at each check, in the replay and in the live run, update_event_data
\* is called on a sensor exactly when it is buffering with a non-empty buffer
\* and now - last_event exceeds buffertime; otherwise update_empty is called
\* exactly when now - last_event exceeds the timeout; otherwise nothing is
\* called.  At most one tick is committed per sensor, and
\* update_event_data never meets an empty buffer.
C8_CheckCallsByWindows ==
    last.op = "check" =>
        \A sid \in Sids :
            LET p      == last.pre[sid]
                settle == /\ p.buffering
                          /\ Len(p.event_buffer) > 0
                          /\ last.now - p.last_event > buffertime
                timed  == last.now - p.last_event > timeout
            IN
            /\ (Called(sid) = "update_event_data") <=> settle
            /\ (Called(sid) = "update_empty") <=> (~settle /\ timed)
            /\ (Called(sid) = "none") <=> (~settle /\ ~timed)
            /\ sensors[sid].n_events <= p.n_events + 1
            /\ Called(sid) = "update_event_data" => Len(p.event_buffer) > 0

\* C8 witness: a check of the replay that flushes s1 and commits an empty
\* tick for s2.
C8_Witness ==
    /\ last.op = "check"
    /\ pc = "simulate"
    /\ Called("s1") = "update_event_data"
    /\ Called("s2") = "update_empty"

\* Scenario A before a check: buffer time 2 s, timeout 30 s, ConnA (-50) heard
\* at t = 0 and ConnB (-60) at t = 0.5 s by s1, t counted from Epoch.
ScenarioA ==
    /\ last.op = "check"
    /\ buffertime = 4 /\ timeout = 60
    /\ last.pre["s1"].event_buffer =
          << Event("s1", "A", -50, Epoch), Event("s1", "B", -60, Epoch + 1) >>
    /\ last.pre["s1"].last_event = Epoch + 1

\* C9 as stated: in Scenario A the check at t = 2 s flushes s1.
C9_FlushAtTwoSeconds ==
    (ScenarioA /\ last.now = Epoch + 4) => Called("s1") = "update_event_data"

\* C9 amended: in Scenario A the check at t = 2 s calls nothing on s1 and
\* leaves its buffer as it is, 1.5 s not exceeding the 2 s buffer time; a check
\* flushes s1 exactly when it is later than t = 2.5 s.
C9_FlushAfterTwoAndAHalfSeconds ==
    ScenarioA =>
        /\ last.now = Epoch + 4 =>
              /\ Called("s1") = "none"
              /\ sensors["s1"] = last.pre["s1"]
        /\ (Called("s1") = "update_event_data") <=> (last.now > Epoch + 5)

\* C9 witness: the check at t = 2 s in Scenario A, in the live run, that
\* called nothing on s1.
C9_Witness ==
    /\ ScenarioA
    /\ last.now = Epoch + 4
    /\ pc = "stream_sleep"
    /\ Called("s1") = "none"

\* C10: a check that finds a sensor with an empty buffer and
\* now - last_event above the timeout commits one tick for it: the call time
\* as timestamp, None as assignment, a 0 appended to every row; the sensor
\* is not buffering afterwards.
C10_TimeoutCommitsEmptyTick ==
    last.op = "check" =>
        \A sid \in Sids :
            LET p == last.pre[sid]
                s == sensors[sid]
            IN (p.event_buffer = <<>> /\ last.now - p.last_event > timeout) =>
                  /\ s.n_events = p.n_events + 1
                  /\ s.unixtime = Append(p.unixtime, last.now)
                  /\ s.max_rssi = Append(p.max_rssi, None)
                  /\ s.ccons = p.ccons
                  /\ Len(s.rssi) = Len(p.rssi)
                  /\ \A k \in 1..Len(s.rssi) : s.rssi[k] = Append(p.rssi[k], 0)
                  /\ s.buffering = FALSE
                  /\ s.event_buffer = <<>>

\* C10 witness: as in Scenario B, a live check that commits an empty tick for
\* s1 after the tick of a flush, the last event being older than the timeout.
C10_Witness ==
    /\ last.op = "check"
    /\ pc = "stream_sleep"
    /\ Called("s1") = "update_empty"
    /\ last.pre["s1"].last_event >= Epoch
    /\ last.pre["s1"].event_buffer = <<>>
    /\ Last(last.pre["s1"].max_rssi) # None
    /\ Len(sensors["s1"].ccons) = 2

(***************************************************************************)
(* Properties of the live run and of the replay                            *)
(***************************************************************************)
\* C11: in the live run the listener serves an event and the main thread
\* checks the sensors under one lock: the two threads are never inside
\* their with blocks together, each is inside only as the holder of the
\* lock, and the check of all sensors is atomic: while it runs the trackers
\* change by the checks alone, so that tracker by tracker the loop computes
\* the check of the state found when the lock was taken.
C11_IngestAndCheckExclusive ==
    /\ ~(pc = "stream_for" /\ lpc = "locked")
    /\ pc = "stream_for" => lock = "main"
    /\ lpc = "locked" => lock = "listener"
    /\ pc = "stream_for" =>
          /\ last.op \in {"lock", "check_sensor"}
          /\ \A j \in 1..Len(sensor_ids) :
                sensors[sensor_ids[j]] =
                    IF j <= sensor_k THEN Check(last.pre, unix_now)[sensor_ids[j]]
                                     ELSE last.pre[sensor_ids[j]]

\* C11 witness: the main thread has committed a tick for the first sensor
\* and not yet checked the second, while the listener waits for the lock
\* with an event for the second.
C11_Witness ==
    /\ pc = "stream_for" /\ sensor_k = 1
    /\ sensors["s1"] # last.pre["s1"]
    /\ lpc = "got" /\ event_data.target = "s2"

\* C12: an event without the connector's id or without updateTime, handed
\* to new_event_data, leaves the tracker as it was: buffer, last_event,
\* buffering and history.
C12_MalformedEventChangesNothing ==
    (last.op = "new_event_data" /\ (last.event.id = NoKey \/ last.event.ux = None))
        => sensors = last.pre

\* C13: update_event_data commits a whole tick or nothing: afterwards the
\* tracker is as before the call, or n_events has grown by one, the
\* timestamps, the assignments and every row have that length and the
\* buffer is reset.
C13_FlushAllOrNothing ==
    last.op = "update_event_data" =>
        \A sid \in Sids :
            LET s == sensors[sid]
                p == last.pre[sid]
            IN \/ s = p
               \/ /\ s.n_events = p.n_events + 1
                  /\ Len(s.unixtime) = s.n_events
                  /\ Len(s.max_rssi) = s.n_events
                  /\ \A j \in 1..Len(s.rssi) : Len(s.rssi[j]) = s.n_events
                  /\ s.event_buffer = <<>>
                  /\ s.buffering = FALSE

\* C14: the timestamps of a tracker's committed ticks, after the None of
\* the construction, increase strictly, through the replay, the live run
\* and the passage from one to the other.
C14_TickTimesIncrease ==
    \A sid \in Sids :
        LET ux == sensors[sid].unixtime
        IN \A j \in 2..(Len(ux) - 1) : ux[j] < ux[j + 1]

\* C14 witness: a tracker with ticks committed by the replay, one of them a
\* flush, followed by ticks committed by the live run.
C14_Witness ==
    \E sid \in Sids :
        LET s == sensors[sid]
        IN /\ Len(s.unixtime) >= 4
           /\ s.unixtime[2] < Epoch
           /\ s.unixtime[Len(s.unixtime)] >= Epoch
           /\ \E j \in 2..Len(s.max_rssi) : s.unixtime[j] < Epoch /\ s.max_rssi[j] # None

\* s is a prefix of t.
IsPrefix(s, t) == Len(s) <= Len(t) /\ \A j \in 1..Len(s) : s[j] = t[j]

\* C15: the history only grows: new_event_data leaves n_events, the
\* timestamps, the rows and the assignments as they are; update_event_data
\* and update_empty add one to n_events; and whatever the call, the
\* timestamps, the assignments, the known connectors and every row keep
\* their earlier entries.
C15_HistoryAppendOnly ==
    \A sid \in Sids :
        LET s == sensors[sid]
            p == last.pre[sid]
        IN /\ last.op = "new_event_data" =>
                 /\ s.n_events = p.n_events
                 /\ s.unixtime = p.unixtime
                 /\ s.rssi = p.rssi
                 /\ s.max_rssi = p.max_rssi
                 /\ s.ccons = p.ccons
           /\ last.op \in {"update_event_data", "update_empty"} =>
                 s.n_events = p.n_events + 1
           /\ IsPrefix(p.unixtime, s.unixtime)
           /\ IsPrefix(p.max_rssi, s.max_rssi)
           /\ IsPrefix(p.ccons, s.ccons)
           /\ Len(p.rssi) <= Len(s.rssi)
           /\ \A j \in 1..Len(p.rssi) : IsPrefix(p.rssi[j], s.rssi[j])

\* C15 witness: a flush that follows an earlier flush and extends a row that
\* holds a signal strength already.
C15_Witness ==
    /\ last.op = "update_event_data"
    /\ last.pre["s1"].n_events = 2
    /\ \E j \in 1..Len(last.pre["s1"].rssi) :
          /\ last.pre["s1"].rssi[j][2] # 0
          /\ Last(sensors["s1"].rssi[j]) # 0

\* C16: an event is served to the tracker its targetName names and to no
\* other: every other tracker stays as it was, all of them when the target
\* is no tracker, and the named tracker gets the call of new_event_data,
\* after which the event is buffered and dates last_event.
C16_ServedToNamedTrackerOnly ==
    last.op = "new_event_data" =>
        /\ \A sid \in Sids \ {last.event.target} : sensors[sid] = last.pre[sid]
        /\ \A sid \in Sids \cap {last.event.target} :
              /\ sensors[sid] = new_event_data(last.pre[sid], last.event)
              /\ \E j \in 1..Len(sensors[sid].event_buffer) :
                    sensors[sid].event_buffer[j] = last.event
              /\ sensors[sid].last_event = last.event.ux
              /\ sensors[sid].buffering

\* C16 witness: an event for s2 is served while s1 holds a buffered event.
C16_Witness ==
    /\ last.op = "new_event_data"
    /\ last.event.target = "s2"
    /\ sensors["s2"].event_buffer # <<>>
    /\ sensors["s1"].event_buffer # <<>>

\* C17: in the replay the events are served one by one in the order of the
\* log, each once (i grows by one with every event served) and only when its
\* time is before the cursor; and the sensors are checked at a cursor value
\* only when every event of the log with a time before it has been served.
C17_ReplayServesDueEventsBeforeCheck ==
    [][ (pc = "simulate" /\ pc' = "simulate") =>
          /\ i' \in {i, i + 1}
          /\ i' = i + 1 =>
                /\ unix_now' = unix_now
                /\ event_history[i'].ux < unix_now
                /\ sensors' = Dispatch(sensors, event_history[i'])
          /\ unix_now' # unix_now =>
                /\ i' = i
                /\ \A j \in 1..Len(event_history) :
                      event_history[j].ux < unix_now => j <= i
                /\ \A j \in (i + 1)..Len(event_history) :
                      event_history[j].ux >= unix_now
                /\ sensors' = Check(sensors, unix_now) ]_vars

\* C17 witness: a check of the replay after one event of the log has been
\* served, with a later event of the log still to come.
C17_Witness ==
    /\ pc = "simulate" /\ last.op = "check"
    /\ i >= 1 /\ i < Len(event_history)
    /\ event_history[i].ux < last.now
    /\ event_history[i + 1].ux >= last.now

\* C18: the replay ends, and for a log that is not empty it ends at the
\* first value of the cursor (the time of the first event plus a multiple
\* of streamtick) that is above the time of the last event.
C18_ReplayTerminates ==
    /\ <>(pc = "stream_now")
    /\ [](pc = "stream_now" /\ event_history # <<>> =>
            /\ unix_now > event_history[Len(event_history)].ux
            /\ unix_now - streamtick <= event_history[Len(event_history)].ux
            /\ (unix_now - event_history[1].ux) % streamtick = 0)

\* C18 witness: the replay of a log of two events has ended after more than
\* two values of the cursor.
C18_Witness ==
    /\ pc = "stream_now" /\ last.op = "end_history"
    /\ Len(event_history) = 2
    /\ unix_now > event_history[1].ux + 2 * streamtick

\* C19: the listener makes at most n_reconnects connection attempts that
\* fail in a row: after the n_reconnects-th it stops, so a further failed
\* attempt never follows.
C19_AtMostFiveFailedAttemptsInARow ==
    failed <= n_reconnects

\* The live run has checked at the last instant of the replay's cursor and
\* every event up to that instant has arrived.
TwinDone ==
    /\ pc = "stream_sleep"
    /\ wall + streamtick > unix_end
    /\ \A j \in (i + 1)..Len(event_history) : event_history[j].ux > wall

\* The committed history of a tracker.
History(s) ==
    [n_events |-> s.n_events, unixtime |-> s.unixtime, ccons |-> s.ccons,
     rssi |-> s.rssi, max_rssi |-> s.max_rssi]

\* C20, as stated: on the same log and the same instants, each event
\* arriving live at its time, the live run ends with the history of the
\* replay for every tracker.
C20_LiveEqualsReplay ==
    TwinDone => \A sid \in Sids : History(sensors[sid]) = History(replayed[sid])

\* C20, amended: the same holds when no event was served before the check
\* of its own instant, and until then every live history is one the replay
\* went through.
C20_LiveEqualsReplayWhenServedAfterCheck ==
    (Streaming /\ ~early) =>
        \A sid \in Sids :
            /\ TwinDone => History(sensors[sid]) = History(replayed[sid])
            /\ IsPrefix(sensors[sid].unixtime, replayed[sid].unixtime)
            /\ IsPrefix(sensors[sid].max_rssi, replayed[sid].max_rssi)

\* C20 witness: both runs are over, no event was served before the check of
\* its instant, and the history of s1 holds a flush and a tick without data.
C20_Witness ==
    /\ TwinDone /\ ~early
    /\ i = 2
    /\ \E j \in 2..Len(sensors["s1"].max_rssi) : sensors["s1"].max_rssi[j] # None
    /\ \E j \in 2..Len(sensors["s1"].max_rssi) : sensors["s1"].max_rssi[j] = None

C22_ReplayServesWholeLog ==
    (pc \notin {"run_history", "simulate"} /\ event_history # <<>>) =>
        i = Len(event_history)

\* The instant after which the clock of a live run stops.
RunEnd == Epoch + Horizon

\* The trackers of a run of the director.
DeviceIds == {Devices[j] : j \in 1..Len(Devices)}

C24_AssignmentIsBufferedCcon ==
    \A sid \in Sids : Flushed(sid) =>
        LET s == sensors[sid]
            a == Last(s.max_rssi)
        IN /\ a \in 0..(Len(s.ccons) - 1)
           /\ s.ccons[a + 1] \in BufferedIds(last.pre[sid].event_buffer)

\* C25: in every state of a tracker, whatever the order of the calls of
\* new_event_data, update_event_data and update_empty, buffering is set
\* exactly when event_buffer is not empty.
C25_BufferingIffBufferNonEmpty ==
    \A sid \in Sids : sensors[sid].buffering <=> sensors[sid].event_buffer # <<>>

=============================================================================
